---- MODULE Spec2Model ----
(***************************************************************************)
(* Spectral clustering of tractography fibers (cluster.py, distance.py).   *)
(*                                                                         *)
(* Numbers.  numpy computes in IEEE doubles; the model computes exactly:   *)
(* a distance is a rational <<n, d>> in lowest terms, a similarity         *)
(* exp(-q) is kept symbolically as the exponent q, and a sum of            *)
(* similarities is a formal sum  SUM c_q * exp(-q)  (a function from the   *)
(* exponents q to their non-zero integer coefficients).  Two formal sums   *)
(* are equal as real numbers exactly when they are equal as functions,     *)
(* because exp(-q) for distinct rationals q are linearly independent over  *)
(* the rationals.  Rounding error of the doubles is not modelled.          *)
(***************************************************************************)
EXTENDS Integers, Sequences, FiniteSets, TLC

VARIABLES
    \* ---- fiberDistance called on two fibers (distance.py) ----
    fiber,          \* F, a fiber of P points
    other,          \* G, a fiber of the same P
    dist,           \* the result of each call made so far, by call name
    \* ---- one run of spectralClustering (cluster.py) ----
    inputVTK,       \* the polydata's lines, each a sequence of 3D points
    k_clusters, no_of_eigvec, sigma, no_of_jobs,
    pc,             \* position in spectralClustering and its callees
    noFibers,       \* inputVTK.GetNumberOfLines(), once read
    fiberArray,     \* fibers.FiberArray after convertFromVTK
    dispatched,     \* Parallel: number of row tasks handed to workers
    running,        \* Parallel: fiber indices whose task is being computed
    rows,           \* Parallel: finished rows, by fiber index
    completed,      \* Parallel: fiber indices in the order they finished
    distances, W, D, L, Lrw,
    eigvec, U, centroids, clusterIdx, centroid_order, colour,
    fidx, dataColour, clusterColour,   \* locals of _format_outputVTK
    cellArrays,     \* names of the arrays in polyData.GetCellData()
    pointScalars,   \* polyData.GetPointData().GetScalars()
    result,         \* what spectralClustering returned
    error           \* the exception that ended the run, or "none"

distVars == <<fiber, other, dist>>
runVars  == <<inputVTK, k_clusters, no_of_eigvec, sigma, no_of_jobs, pc,
              noFibers, fiberArray, dispatched, running, rows, completed,
              distances, W, D, L, Lrw, eigvec, U, centroids, clusterIdx,
              centroid_order, colour, fidx, dataColour, clusterColour,
              cellArrays, pointScalars, result, error>>
vars     == <<distVars, runVars>>

\* A value not yet computed is None; a computed value v is Some(v).
None    == {}
Some(v) == {v}
Val(o)  == CHOOSE v \in o : TRUE

\* ------------------------------------------------------------------ bounds
MaxPts    == 2      \* points per fiber (the code resamples to 20)
MaxFibers == 3      \* fibers in the input geometry

\* ------------------------------------------------------- exact arithmetic
Abs(n) == IF n < 0 THEN -n ELSE n

RECURSIVE GCD(_, _)
GCD(a, b) == IF b = 0 THEN a ELSE GCD(b, a % b)

\* The rational n/d (d # 0) in lowest terms with a positive denominator.
Rat(n, d) ==
    LET g == GCD(Abs(n), Abs(d))
        s == IF d < 0 THEN -1 ELSE 1
    IN  <<(s * n) \div g, (s * d) \div g>>

RatInt(n)    == <<n, 1>>
RatAdd(a, b) == Rat(a[1] * b[2] + b[1] * a[2], a[2] * b[2])
RatSub(a, b) == Rat(a[1] * b[2] - b[1] * a[2], a[2] * b[2])
RatMul(a, b) == Rat(a[1] * b[1], a[2] * b[2])
RatDiv(a, b) == Rat(a[1] * b[2], a[2] * b[1])
RatLeq(a, b) == a[1] * b[2] <= b[1] * a[2]
RatMin(a, b) == IF RatLeq(a, b) THEN a ELSE b
RatMax(a, b) == IF RatLeq(a, b) THEN b ELSE a

RECURSIVE SumSeq(_)
SumSeq(s) == IF s = <<>> THEN 0 ELSE Head(s) + SumSeq(Tail(s))

Reverse(s) == [i \in 1..Len(s) |-> s[Len(s) + 1 - i]]

\* ------------------------------------------------------------ fibers.py
\* A polyline is a sequence of points <<x, y, z>>; a Fiber holds the three
\* coordinate vectors.
FiberOf(line) ==
    [x |-> [i \in 1..Len(line) |-> line[i][1]],
     y |-> [i \in 1..Len(line) |-> line[i][2]],
     z |-> [i \in 1..Len(line) |-> line[i][3]]]

getReverseFiber(f) ==
    [x |-> Reverse(f.x), y |-> Reverse(f.y), z |-> Reverse(f.z)]

\* FiberArray.convertFromVTK: the lines as three N x P coordinate arrays.
convertFromVTK(lines, pts) ==
    [fiberArray_x  |-> [n \in 1..Len(lines) |-> FiberOf(lines[n]).x],
     fiberArray_y  |-> [n \in 1..Len(lines) |-> FiberOf(lines[n]).y],
     fiberArray_z  |-> [n \in 1..Len(lines) |-> FiberOf(lines[n]).z],
     no_of_fibers  |-> Len(lines),
     pts_per_fiber |-> pts]

\* FiberArray.getFiber(fidx), fidx counted from 0 as in the code.
getFiber(fa, i) ==
    [x |-> fa.fiberArray_x[i + 1],
     y |-> fa.fiberArray_y[i + 1],
     z |-> fa.fiberArray_z[i + 1]]

\* The FiberArray holding the single fiber g: the {G} of fiberDistance(F, {G}).
Single(g) ==
    [fiberArray_x  |-> <<g.x>>, fiberArray_y |-> <<g.y>>,
     fiberArray_z  |-> <<g.z>>,
     no_of_fibers  |-> 1,
     pts_per_fiber |-> Len(g.x)]

\* ----------------------------------------------------------- distance.py
\* A copy-and-paste slip: the z difference is taken against fiber.y.
_fiberDistance_internal_yz(f, fa) ==
    [n \in 1..fa.no_of_fibers |->
        Rat(SumSeq([i \in 1..fa.pts_per_fiber |->
                (fa.fiberArray_x[n][i] - f.x[i]) * (fa.fiberArray_x[n][i] - f.x[i])
              + (fa.fiberArray_y[n][i] - f.y[i]) * (fa.fiberArray_y[n][i] - f.y[i])
              + (fa.fiberArray_z[n][i] - f.y[i]) * (fa.fiberArray_z[n][i] - f.y[i])]),
            fa.pts_per_fiber)]

_fiberDistance_internal(f, fa) ==
    LET dx(n, i) == fa.fiberArray_x[n][i] - f.x[i]
        dy(n, i) == fa.fiberArray_y[n][i] - f.y[i]
        dz(n, i) == fa.fiberArray_z[n][i] - f.z[i]
        distance(n) ==
            SumSeq([i \in 1..fa.pts_per_fiber |->
                dx(n, i) * dx(n, i) + dy(n, i) * dy(n, i) + dz(n, i) * dz(n, i)])
    IN  [n \in 1..fa.no_of_fibers |-> Rat(distance(n), fa.pts_per_fiber)]

\* The reversed fiber is computed but its distance is never used.
fiberDistance_forward_only(f, fa) == _fiberDistance_internal(f, fa)

fiberDistance(f, fa) ==
    LET fiberEquiv == getReverseFiber(f)
        distance1  == _fiberDistance_internal(f, fa)
        distance2  == _fiberDistance_internal(fiberEquiv, fa)
    IN  [n \in 1..fa.no_of_fibers |-> RatMin(distance1[n], distance2[n])]

\* exp(-distance / (2 * sigmasq)), kept as the formal sum 1 * exp(-q).
ESZero   == [q \in {} |-> 0]
ESExp(q) == [e \in {q} |-> 1]
ESOne    == ESExp(RatInt(0))
ESCoef(a, q) == IF q \in DOMAIN a THEN a[q] ELSE 0

ESAdd(a, b) ==
    LET c(q) == ESCoef(a, q) + ESCoef(b, q)
    IN  [q \in {e \in DOMAIN a \cup DOMAIN b : c(e) # 0} |-> c(q)]

ESSub(a, b) ==
    LET c(q) == ESCoef(a, q) - ESCoef(b, q)
    IN  [q \in {e \in DOMAIN a \cup DOMAIN b : c(e) # 0} |-> c(q)]

RECURSIVE SumPairs(_, _, _)
SumPairs(S, a, b) ==
    IF S = {} THEN 0
    ELSE LET pq == CHOOSE x \in S : TRUE
         IN  a[pq[1]] * b[pq[2]] + SumPairs(S \ {pq}, a, b)

\* exp(-p) * exp(-q) = exp(-(p + q))
ESMul(a, b) ==
    LET pairs == (DOMAIN a) \X (DOMAIN b)
        c(e)  == SumPairs({pq \in pairs : RatAdd(pq[1], pq[2]) = e}, a, b)
        exps  == {RatAdd(pq[1], pq[2]) : pq \in pairs}
    IN  [q \in {e \in exps : c(e) # 0} |-> c(q)]

RECURSIVE ESSum(_)
ESSum(s) == IF s = <<>> THEN ESZero ELSE ESAdd(Head(s), ESSum(Tail(s)))

\* A quotient num / den of formal sums (den # 0).
Frac(n, d)      == [num |-> n, den |-> d]
FracZero        == Frac(ESZero, ESOne)
FracAdd(a, b)   == Frac(ESAdd(ESMul(a.num, b.den), ESMul(b.num, a.den)),
                        ESMul(a.den, b.den))
FracTimes(a, e) == Frac(ESMul(a.num, e), a.den)
FracIsZero(a)   == a.num = ESZero

RECURSIVE FracSum(_)
FracSum(s) == IF s = <<>> THEN FracZero ELSE FracAdd(Head(s), FracSum(Tail(s)))

gausKernel_similarity(distance, sigmasq) ==
    [i \in 1..Len(distance) |->
        [j \in 1..Len(distance[i]) |->
            ESExp(RatDiv(distance[i][j], RatInt(2 * sigmasq)))]]

\* -------------------------------------------------------------- cluster.py
NRows(m) == Len(m)
NCols(m) == IF Len(m) = 0 THEN 0 ELSE Len(m[1])
Column(m, j) == [i \in 1..Len(m) |-> m[i][j]]

RECURSIVE RatMinSeq(_)
RatMinSeq(s) ==
    IF Len(s) = 1 THEN s[1] ELSE RatMin(Head(s), RatMinSeq(Tail(s)))

RECURSIVE RatMaxSeq(_)
RatMaxSeq(s) ==
    IF Len(s) = 1 THEN s[1] ELSE RatMax(Head(s), RatMaxSeq(Tail(s)))

\* sklearn.preprocessing.MinMaxScaler().fit_transform(X), feature_range (0, 1):
\* every column (feature) is scaled by its own minimum and maximum; a constant
\* column has its range replaced by 1.
MinMaxScaler_fit_transform(X) ==
    LET data_min(j)   == RatMinSeq(Column(X, j))
        data_max(j)   == RatMaxSeq(Column(X, j))
        data_range(j) == IF data_max(j) = data_min(j) THEN RatInt(1)
                         ELSE RatSub(data_max(j), data_min(j))
        scale_(j)     == RatDiv(RatInt(1), data_range(j))
        min_(j)       == RatSub(RatInt(0), RatMul(data_min(j), scale_(j)))
    IN  [i \in 1..NRows(X) |->
            [j \in 1..NCols(X) |-> RatAdd(RatMul(X[i][j], scale_(j)), min_(j))]]

\* np.sum(m, 0): the sum down every column.
ColumnSums(m) == [j \in 1..NCols(m) |-> ESSum(Column(m, j))]
\* np.sum(m, 1): the sum along every row.
RowSums(m)    == [i \in 1..NRows(m) |-> ESSum(m[i])]

\* np.diag(v)
Diag(v, zero) == [i \in 1..Len(v) |-> [j \in 1..Len(v) |-> IF i = j THEN v[i] ELSE zero]]

_degreeMatrix(inputMatrix) == Diag(ColumnSums(inputMatrix), ESZero)

\* L = D - W
Laplacian(d, w) ==
    [i \in 1..NRows(d) |-> [j \in 1..NCols(d) |-> ESSub(d[i][j], w[i][j])]]

\* Lrw = np.dot(np.diag(np.divide(1, np.sum(D, 0))), L)
RandomWalkLaplacian(d, l) ==
    LET inv == Diag([j \in 1..NCols(d) |-> Frac(ESOne, ColumnSums(d)[j])], FracZero)
    IN  [i \in 1..NRows(inv) |->
            [j \in 1..NCols(l) |->
                FracSum([k \in 1..NCols(inv) |-> FracTimes(inv[i][k], l[k][j])])]]

\* No stage of the pipeline has run and the geometry carries no array.
NothingComputed ==
    /\ fiberArray = None
    /\ dispatched = 0 /\ running = {} /\ rows = None /\ completed = <<>>
    /\ distances = None /\ W = None /\ D = None /\ L = None /\ Lrw = None
    /\ eigvec = None /\ U = None /\ centroids = None /\ clusterIdx = None
    /\ centroid_order = None /\ colour = None
    /\ fidx = 0 /\ dataColour = None /\ clusterColour = None
    /\ cellArrays = {} /\ pointScalars = None

\* The run of spectralClustering has not started.
RunUnset ==
    /\ NothingComputed
    /\ noFibers = None /\ result = "pending" /\ error = "none"

params == <<inputVTK, k_clusters, no_of_eigvec, sigma, no_of_jobs>>
par    == <<dispatched, running, rows, completed>>
mats   == <<distances, W, D, L, Lrw>>
clus   == <<eigvec, U, centroids, clusterIdx, centroid_order, colour>>
fmt    == <<fidx, dataColour, clusterColour>>
geom   == <<cellArrays, pointScalars>>

\* if no_of_eigvec == 0: the test compares with the wrong number.
SingleEigenvector_zero == no_of_eigvec = 0

\* if no_of_eigvec == 1
SingleEigenvector == no_of_eigvec = 1

\* if noFibers < 0: the test can never be true.
EmptyInput_negative == Val(noFibers) < 0

\* if noFibers == 0
EmptyInput == Val(noFibers) = 0

\* spectralClustering, lines 32-34: print, return None.
CheckEigvec ==
    /\ pc = "start"
    /\ IF SingleEigenvector
       THEN pc' = "done" /\ result' = "None" /\ UNCHANGED noFibers
       ELSE pc' = "count" /\ noFibers' = Some(Len(inputVTK)) /\ UNCHANGED result
    /\ UNCHANGED <<distVars, params, fiberArray, par, mats, clus, fmt, geom, error>>

\* spectralClustering, lines 36-43.
CheckFibers ==
    /\ pc = "count"
    /\ IF EmptyInput
       THEN pc' = "done" /\ result' = "None"
       ELSE pc' = "convert" /\ UNCHANGED result
    /\ UNCHANGED <<distVars, params, noFibers, fiberArray, par, mats, clus, fmt,
                   geom, error>>

\* _pairwiseDistance_matrix, lines 95-96.
Convert ==
    /\ pc = "convert"
    /\ fiberArray' = Some(convertFromVTK(inputVTK, MaxPts))
    /\ pc' = "parallel"
    /\ UNCHANGED <<distVars, params, noFibers, par, mats, clus, fmt, geom,
                   result, error>>

\* Parallel(n_jobs=no_of_jobs): the next task of the generator (fidx in
\* range(0, no_of_fibers)) is handed to a free worker.
Dispatch ==
    /\ pc = "parallel"
    /\ dispatched < Val(fiberArray).no_of_fibers
    /\ Cardinality(running) < no_of_jobs
    /\ running' = running \cup {dispatched}
    /\ dispatched' = dispatched + 1
    /\ UNCHANGED <<distVars, params, pc, noFibers, fiberArray, rows, completed,
                   mats, clus, fmt, geom, result, error>>

\* A worker finishes delayed(distance.fiberDistance)(getFiber(i), fiberArray);
\* the workers finish in any order.
Complete ==
    /\ pc = "parallel"
    /\ \E i \in running :
        /\ rows' = rows \cup
              {<<i, fiberDistance(getFiber(Val(fiberArray), i), Val(fiberArray))>>}
        /\ running' = running \ {i}
        /\ completed' = Append(completed, i)
    /\ UNCHANGED <<distVars, params, pc, noFibers, fiberArray, dispatched, mats,
                   clus, fmt, geom, result, error>>

RowOf(i) == (CHOOSE r \in rows : r[1] = i)[2]

\* The list is filled in the order the workers finished.
Gathered_in_completion_order ==
    [n \in 1..Len(completed) |-> RowOf(completed[n])]

\* Parallel returns the results as a list in the order of the tasks.
Gathered == [n \in 1..dispatched |-> RowOf(n - 1)]

Collect ==
    /\ pc = "parallel"
    /\ dispatched = Val(fiberArray).no_of_fibers
    /\ running = {}
    /\ distances' = Some(Gathered)
    /\ pc' = "normalize"
    /\ UNCHANGED <<distVars, params, noFibers, fiberArray, par, W, D, L, Lrw,
                   clus, fmt, geom, result, error>>

\* _pairwiseDistance_matrix, lines 103-107: np.array, MinMaxScaler, return;
\* the Parallel object is gone.
Normalize ==
    /\ pc = "normalize"
    /\ distances' = Some(MinMaxScaler_fit_transform(Val(distances)))
    /\ dispatched' = 0 /\ running' = {} /\ rows' = {} /\ completed' = <<>>
    /\ pc' = "similarity"
    /\ UNCHANGED <<distVars, params, noFibers, fiberArray, W, D, L, Lrw, clus,
                   fmt, geom, result, error>>

\* _pairwiseSimilarity_matrix, lines 124-129.
Similarity ==
    /\ pc = "similarity"
    /\ W' = Some(gausKernel_similarity(Val(distances), sigma * sigma))
    /\ pc' = "degree"
    /\ UNCHANGED <<distVars, params, noFibers, fiberArray, par, distances, D, L,
                   Lrw, clus, fmt, geom, result, error>>

\* spectralClustering, line 50.
Degree ==
    /\ pc = "degree"
    /\ D' = Some(_degreeMatrix(Val(W)))
    /\ pc' = "laplacian"
    /\ UNCHANGED <<distVars, params, noFibers, fiberArray, par, distances, W, L,
                   Lrw, clus, fmt, geom, result, error>>

\* spectralClustering, lines 53-56.
Normalized ==
    /\ pc = "laplacian"
    /\ L' = Some(Laplacian(Val(D), Val(W)))
    /\ Lrw' = Some(RandomWalkLaplacian(Val(D), Laplacian(Val(D), Val(W))))
    /\ pc' = "eig"
    /\ UNCHANGED <<distVars, params, noFibers, fiberArray, par, distances, W, D,
                   clus, fmt, geom, result, error>>

\* A worker raises: Parallel re-raises in the caller and the run ends.
RaiseParallel ==
    /\ pc = "parallel"
    /\ running # {}
    /\ pc' = "done" /\ result' = "raised" /\ error' = "WorkerError"
    /\ UNCHANGED <<distVars, params, noFibers, fiberArray, par, mats, clus, fmt,
                   geom>>

\* ------------------------------------------------- eig, kmeans2 (libraries)
\* np.linalg.eig and scipy.cluster.vq.kmeans2 are not computed: their results
\* are drawn from samples of the shapes the libraries return.  Embedding
\* coordinates are integers in an arbitrary unit (a colour depends only on
\* their direction).
EigSamples(n) ==
    { [i \in 1..n |-> [j \in 1..n |-> i - j]],
      [i \in 1..n |-> [j \in 1..n |->
            IF j = 1 THEN 1 ELSE IF i % 2 = 0 THEN j ELSE -j]] }

\* minit='points' starts from k_clusters rows of the data: the centroids in
\* their data order, the same centroids under the opposite labelling, and
\* centroids at the origin.
CentroidSamples(data, k) ==
    LET first == [c \in 1..k |-> data[c]]
    IN  { first,
          [c \in 1..k |-> first[k + 1 - c]],
          [c \in 1..k |-> [j \in 1..NCols(data) |-> 0]] }

\* spectralClustering, line 60.
Eig ==
    /\ pc = "eig"
    /\ \E e \in EigSamples(NRows(Val(Lrw))) : eigvec' = Some(e)
    /\ pc' = "embed"
    /\ UNCHANGED <<distVars, params, noFibers, fiberArray, par, mats, U,
                   centroids, clusterIdx, centroid_order, colour, fmt, geom,
                   result, error>>

\* np.linalg.eig raises LinAlgError.
RaiseEig ==
    /\ pc = "eig"
    /\ pc' = "done" /\ result' = "raised" /\ error' = "LinAlgError"
    /\ UNCHANGED <<distVars, params, noFibers, fiberArray, par, mats, clus, fmt,
                   geom>>

Min(a, b) == IF a < b THEN a ELSE b

\* eigvec[:, 0:no_of_eigvec]: a slice stops at the last column there is.
FirstColumns(m, n) ==
    [i \in 1..NRows(m) |-> [j \in 1..Min(n, NCols(m)) |-> m[i][j]]]

\* spectralClustering, line 64.
Embed ==
    /\ pc = "embed"
    /\ U' = Some(FirstColumns(Val(eigvec), no_of_eigvec))
    /\ pc' = "kmeans"
    /\ UNCHANGED <<distVars, params, noFibers, fiberArray, par, mats, eigvec,
                   centroids, clusterIdx, centroid_order, colour, fmt, geom,
                   result, error>>

\* spectralClustering, line 68.
KMeans ==
    /\ pc = "kmeans"
    /\ k_clusters <= NRows(Val(U))
    /\ \E c \in CentroidSamples(Val(U), k_clusters) : centroids' = Some(c)
    /\ \E l \in [1..NRows(Val(U)) -> 0..(k_clusters - 1)] : clusterIdx' = Some(l)
    /\ pc' = "argsort"
    /\ UNCHANGED <<distVars, params, noFibers, fiberArray, par, mats, eigvec, U,
                   centroid_order, colour, fmt, geom, result, error>>

\* kmeans2 raises (for one, when there are fewer fibers than clusters).
RaiseKMeans ==
    /\ pc = "kmeans"
    /\ pc' = "done" /\ result' = "raised" /\ error' = "KMeansError"
    /\ UNCHANGED <<distVars, params, noFibers, fiberArray, par, mats, clus, fmt,
                   geom>>

\* np.argsort(v): the 0-based indices of v in ascending order of value.
ArgSort(v) ==
    LET before(a, b) == v[a] < v[b] \/ (v[a] = v[b] /\ a < b)
        rank(a)      == Cardinality({b \in 1..Len(v) : before(b, a)})
    IN  [r \in 1..Len(v) |-> (CHOOSE a \in 1..Len(v) : rank(a) = r - 1) - 1]

\* spectralClustering, line 69: centroid_order is assigned and never read.
SortOrder ==
    /\ pc = "argsort"
    /\ centroid_order' = Some(ArgSort(Column(Val(centroids), 1)))
    /\ pc' = "colour"
    /\ UNCHANGED <<distVars, params, noFibers, fiberArray, par, mats, eigvec, U,
                   centroids, clusterIdx, colour, fmt, geom, result, error>>

\* _cluster_to_rgb: entry <<c, s>> stands for 127.5 + 127.5 * c / sqrt(s),
\* s the sum of the squares of the row's first three (or fewer) components.
_cluster_to_rgb(data) ==
    LET cols     == Min(3, NCols(data))
        lensq(r) == SumSeq([j \in 1..cols |-> data[r][j] * data[r][j]])
    IN  [r \in 1..NRows(data) |-> [j \in 1..cols |-> <<data[r][j], lensq(r)>>]]

\* spectralClustering, lines 71-74.
Colour ==
    /\ pc = "colour"
    /\ colour' = IF no_of_eigvec = 2
                 THEN Some(_cluster_to_rgb(Val(U)))
                 ELSE Some(_cluster_to_rgb(Val(centroids)))
    /\ pc' = "format"
    /\ UNCHANGED <<distVars, params, noFibers, fiberArray, par, mats, eigvec, U,
                   centroids, clusterIdx, centroid_order, fmt, geom, result,
                   error>>

\* a * sqrt(s) <= b, for integers a, b and s >= 0.
LeqSqrt(a, s, b) ==
    IF a <= 0 /\ b >= 0 THEN TRUE
    ELSE IF a > 0 /\ b < 0 THEN FALSE
    ELSE IF a >= 0 THEN a * a * s <= b * b
    ELSE a * a * s >= b * b

\* What a cast of NaN to unsigned char may give (undefined in C).
NaNCast == {0, 255}

\* The colour entry <<c, s>> stored into a vtkUnsignedCharArray: the double
\* 127.5 + 127.5 * c / sqrt(s) truncated to an integer, modulo 256; with
\* s = 0 the double is NaN and the stored byte is nan.
ToUChar(e, nan) ==
    IF e[2] = 0 THEN nan
    ELSE LET below(m) == LeqSqrt(2 * m - 255, e[2], 255 * e[1])
             floor    == CHOOSE m \in -1..256 :
                            /\ (m = -1 \/ below(m))
                            /\ (m = 256 \/ ~below(m + 1))
         IN  floor % 256

\* colour[clusterIdx[fidx], 0..2] raises IndexError.
LookupFails(i) ==
    \/ Val(clusterIdx)[i + 1] + 1 > NRows(Val(colour))
    \/ NCols(Val(colour)) < 3

\* The arrays are put on the polydata as soon as they are created.
FormatBegin_attach_first ==
    /\ pc = "format"
    /\ dataColour' = Some(<<>>) /\ clusterColour' = Some(<<>>) /\ fidx' = 0
    /\ cellArrays' = cellArrays \cup {"DataColour", "ClusterNumber"}
    /\ pointScalars' = Some("DataColour")
    /\ pc' = "loop"
    /\ UNCHANGED <<distVars, params, noFibers, fiberArray, par, mats, clus,
                   result, error>>

\* _format_outputVTK, lines 203-212: the two arrays are created.
FormatBegin ==
    /\ pc = "format"
    /\ dataColour' = Some(<<>>) /\ clusterColour' = Some(<<>>) /\ fidx' = 0
    /\ pc' = "loop"
    /\ UNCHANGED <<distVars, params, noFibers, fiberArray, par, mats, clus, geom,
                   result, error>>

\* _format_outputVTK, lines 214-217: one turn of the loop.
FormatLoop ==
    /\ pc = "loop"
    /\ fidx < Len(inputVTK)
    /\ ~LookupFails(fidx)
    /\ \E nan \in NaNCast :
          LET row == Val(colour)[Val(clusterIdx)[fidx + 1] + 1]
          IN  dataColour' = Some(Append(Val(dataColour),
                  <<ToUChar(row[1], nan), ToUChar(row[2], nan), ToUChar(row[3], nan)>>))
    /\ clusterColour' = Some(Append(Val(clusterColour), Val(clusterIdx)[fidx + 1]))
    /\ fidx' = fidx + 1
    /\ UNCHANGED <<distVars, params, pc, noFibers, fiberArray, par, mats, clus,
                   geom, result, error>>

\* The lookup of lines 215-216 raises; the exception leaves spectralClustering.
FormatIndexError ==
    /\ pc = "loop"
    /\ fidx < Len(inputVTK)
    /\ LookupFails(fidx)
    /\ pc' = "done" /\ result' = "raised" /\ error' = "IndexError"
    /\ UNCHANGED <<distVars, params, noFibers, fiberArray, par, mats, clus, fmt,
                   geom>>

\* _format_outputVTK, line 220.
AddDataColour ==
    /\ pc = "loop"
    /\ fidx = Len(inputVTK)
    /\ cellArrays' = cellArrays \cup {"DataColour"}
    /\ pc' = "add"
    /\ UNCHANGED <<distVars, params, noFibers, fiberArray, par, mats, clus, fmt,
                   pointScalars, result, error>>

\* _format_outputVTK, lines 222-224.
AddClusterNumber ==
    /\ pc = "add"
    /\ cellArrays' = cellArrays \cup {"ClusterNumber"}
    /\ pointScalars' = Some("DataColour")
    /\ pc' = "return"
    /\ UNCHANGED <<distVars, params, noFibers, fiberArray, par, mats, clus, fmt,
                   result, error>>

\* _format_outputVTK, line 226, and spectralClustering, line 80.
Return ==
    /\ pc = "return"
    /\ pc' = "done" /\ result' = "tuple"
    /\ UNCHANGED <<distVars, params, noFibers, fiberArray, par, mats, clus, fmt,
                   geom, error>>

\* ---------------------------------------------------------------- inputs
\* A straight fiber of MaxPts equally spaced points.
Segment(p, step) ==
    [i \in 1..MaxPts |-> <<p[1] + (i - 1) * step[1],
                           p[2] + (i - 1) * step[2],
                           p[3] + (i - 1) * step[3]>>]

MatrixLines ==
    { Segment(<<0, 0, 0>>, <<1, 0, 0>>),
      Reverse(Segment(<<0, 0, 0>>, <<1, 0, 0>>)),
      Segment(<<0, 1, 0>>, <<1, 0, 0>>),
      Segment(<<0, 0, 3>>, <<1, 0, 0>>) }

Geometries(pool, lo, hi) == UNION {[1..n -> pool] : n \in lo..hi}

Sigmas == {1, 60}
Jobs   == {1, 2}

DistUnused == fiber = None /\ other = None /\ dist = None

\* The matrix stages of spectralClustering on a non-empty geometry.
InitMatrix ==
    /\ inputVTK \in Geometries(MatrixLines, 1, MaxFibers)
    /\ k_clusters = 2 /\ no_of_eigvec = 3
    /\ sigma \in Sigmas /\ no_of_jobs \in Jobs
    /\ pc = "start"
    /\ RunUnset /\ DistUnused

NextMatrix ==
    \/ CheckEigvec \/ CheckFibers \/ Convert
    \/ Dispatch \/ Complete \/ Collect \/ RaiseParallel
    \/ Normalize \/ Similarity \/ Degree \/ Normalized

SpecMatrix == InitMatrix /\ [][NextMatrix]_vars

RunLines ==
    { Segment(<<0, 0, 0>>, <<1, 0, 0>>),
      Reverse(Segment(<<0, 1, 0>>, <<1, 0, 0>>)) }

Clusters == {1, 2}
Eigvecs  == {1, 2, 3}

\* One call of spectralClustering.
Init ==
    /\ inputVTK \in Geometries(RunLines, 0, MaxFibers)
    /\ k_clusters \in Clusters /\ no_of_eigvec \in Eigvecs
    /\ sigma = 60 /\ no_of_jobs \in Jobs
    /\ pc = "start"
    /\ RunUnset /\ DistUnused

Next ==
    \/ CheckEigvec \/ CheckFibers \/ Convert
    \/ Dispatch \/ Complete \/ Collect \/ RaiseParallel
    \/ Normalize \/ Similarity \/ Degree \/ Normalized
    \/ Eig \/ RaiseEig \/ Embed \/ KMeans \/ RaiseKMeans \/ SortOrder \/ Colour
    \/ FormatBegin \/ FormatLoop \/ FormatIndexError
    \/ AddDataColour \/ AddClusterNumber \/ Return

Spec == Init /\ [][Next]_vars

\* C3: with no_of_eigvec = 1 the run is rejected before anything is computed:
\* whatever the geometry, the fibers are not even counted, no matrix is built,
\* no eigen-decomposition or k-means is run, no array is attached, and the
\* call returns None.
C3_SingleEigvecRejected ==
    no_of_eigvec = 1 =>
        /\ pc \in {"start", "done"}
        /\ NothingComputed /\ noFibers = None
        /\ error = "none"
        /\ pc = "done" => result = "None"

C3_Witness ==
    no_of_eigvec = 1 /\ pc = "done" /\ result = "None" /\ Len(inputVTK) > 0

\* C4: a geometry with 0 fibers (and no_of_eigvec # 1) is rejected at once:
\* no fiber array is converted, no matrix is built, no clustering is run, the
\* geometry is unchanged, and the call returns None.
C4_EmptyInputRejected ==
    (Len(inputVTK) = 0 /\ no_of_eigvec # 1) =>
        /\ pc \in {"start", "count", "done"}
        /\ NothingComputed
        /\ error = "none"
        /\ pc = "done" => result = "None"

C4_Witness ==
    /\ Len(inputVTK) = 0 /\ no_of_eigvec # 1
    /\ pc = "done" /\ result = "None" /\ noFibers = Some(0)

\* C5: the geometry carries an array only after every stage has succeeded and
\* every fiber has its colour and cluster number; a run that failed left no
\* array on the geometry.
C5_NoPartialOutput ==
    /\ (cellArrays # {} \/ pointScalars # None) =>
          /\ error = "none" /\ result # "raised"
          /\ distances # None /\ W # None /\ D # None /\ L # None /\ Lrw # None
          /\ eigvec # None /\ U # None /\ centroids # None /\ clusterIdx # None
          /\ colour # None
          /\ fidx = Len(inputVTK)
          /\ Len(Val(dataColour)) = Len(inputVTK)
          /\ Len(Val(clusterColour)) = Len(inputVTK)
    /\ error # "none" => (cellArrays = {} /\ pointScalars = None)

C5_Witness ==
    /\ pc = "done" /\ error = "IndexError"
    /\ dataColour # None /\ clusterColour # None
    /\ cellArrays = {} /\ pointScalars = None

\* C6: when no library call failed, a run with N >= 1 fibers and
\* no_of_eigvec >= 2 ends with one cluster id in [0, k_clusters) and one
\* colour of 3 components in [0, 255] per fiber, the colour being the colour
\* table's row of the fiber's cluster id.
C6_EveryFiberColoured ==
    (/\ pc = "done"
     /\ Len(inputVTK) >= 1 /\ no_of_eigvec >= 2
     /\ error \notin {"WorkerError", "LinAlgError", "KMeansError"}) =>
        /\ result = "tuple"
        /\ cellArrays = {"DataColour", "ClusterNumber"}
        /\ Len(Val(clusterColour)) = Len(inputVTK)
        /\ Len(Val(dataColour)) = Len(inputVTK)
        /\ \A i \in 1..Len(inputVTK) :
              /\ Val(clusterColour)[i] \in 0..(k_clusters - 1)
              /\ Len(Val(dataColour)[i]) = 3
              /\ \A j \in 1..3 : Val(dataColour)[i][j] \in 0..255
              /\ \E nan \in NaNCast : \A j \in 1..3 :
                    Val(dataColour)[i][j] =
                        ToUChar(Val(colour)[Val(clusterColour)[i] + 1][j], nan)

IsAscending(v) == \A n \in 1..(Len(v) - 1) : v[n] <= v[n + 1]

\* C9: once the colours are derived, the centroids used for them, and later
\* returned, are in ascending order of their first coordinate.
C9_CentroidsOrdered ==
    colour # None => IsAscending(Column(Val(centroids), 1))

IsSymmetric(m) ==
    \A i \in 1..NRows(m) : \A j \in 1..NCols(m) : m[i][j] = m[j][i]

\* C7: the normalized distance matrix and the similarity matrix are
\* symmetric, the distance matrix has a zero diagonal and the similarity
\* matrix a unit diagonal.
C7_SymmetricMatrices ==
    /\ (distances # None /\ pc # "normalize") =>
          /\ IsSymmetric(Val(distances))
          /\ \A i \in 1..NRows(Val(distances)) : Val(distances)[i][i] = RatInt(0)
    /\ W # None =>
          /\ IsSymmetric(Val(W))
          /\ \A i \in 1..NRows(Val(W)) : Val(W)[i][i] = ESOne

\* C8: entry i of the degree matrix is the sum of row i of W, and every row
\* of the random-walk Laplacian sums to 0.
C8_RowSums ==
    /\ D # None =>
          \A i \in 1..NRows(Val(D)) : Val(D)[i][i] = RowSums(Val(W))[i]
    /\ Lrw # None =>
          \A i \in 1..NRows(Val(Lrw)) : FracIsZero(FracSum(Val(Lrw)[i]))

\* The rows computed one after the other, in the order of the fibers.
SequentialBuild(fa) ==
    [n \in 1..fa.no_of_fibers |-> fiberDistance(getFiber(fa, n - 1), fa)]

\* C10: whatever the number of workers and the order in which they finish,
\* every row is gathered exactly once, row i is fiberDistance(fiber i, all
\* fibers), and the matrix is the one a sequential build produces.
C10_ScheduleIndependent ==
    pc = "normalize" =>
        /\ Len(Val(distances)) = Len(inputVTK)
        /\ Cardinality(rows) = Len(inputVTK)
        /\ \A i \in 0..(Len(inputVTK) - 1) :
              Cardinality({r \in rows : r[1] = i}) = 1
        /\ Val(distances) = SequentialBuild(Val(fiberArray))

C10_Witness ==
    /\ pc = "normalize"
    /\ no_of_jobs > 1
    /\ \E n \in 1..(Len(completed) - 1) : completed[n] > completed[n + 1]
    /\ Gathered_in_completion_order # Gathered

\* ------------------------------------------------------------------------
\* fiberDistance on a pair of fibers F, G of the same length.
Points == {<<0, 0, 0>>, <<1, 0, 2>>, <<0, 3, 1>>, <<2, 1, 0>>}

DistFibers(P) == {FiberOf(l) : l \in [1..P -> Points]}

Calls == {"FG", "GF", "FF", "RG", "FR", "RR"}

InitDist ==
    /\ \E P \in 1..MaxPts : fiber \in DistFibers(P) /\ other \in DistFibers(P)
    /\ dist = [c \in Calls |-> None]
    /\ inputVTK = <<>> /\ k_clusters = 1 /\ no_of_eigvec = 1
    /\ sigma = 1 /\ no_of_jobs = 1 /\ pc = "idle"
    /\ RunUnset

Call(c, f, g) ==
    /\ dist[c] = None
    /\ dist' = [dist EXCEPT ![c] = Some(fiberDistance(f, Single(g)))]
    /\ UNCHANGED <<fiber, other, runVars>>

CallFG == Call("FG", fiber, other)
CallGF == Call("GF", other, fiber)
CallFF == Call("FF", fiber, fiber)
CallRG == Call("RG", getReverseFiber(fiber), other)
CallFR == Call("FR", fiber, getReverseFiber(other))
CallRR == Call("RR", getReverseFiber(fiber), getReverseFiber(other))

NextDist == CallFG \/ CallGF \/ CallFF \/ CallRG \/ CallFR \/ CallRR

SpecDist == InitDist /\ [][NextDist]_vars

\* The reversed orientation of F is strictly nearer to G than F as stored.
ReverseIsNearer ==
    Val(dist["FG"]) # _fiberDistance_internal(fiber, Single(other))

\* C1: fiberDistance is symmetric in its two fibers, fiberDistance(F, {G}) =
\* fiberDistance(G, {F}), and fiberDistance(F, {F}) is 0.
C1_Symmetric ==
    /\ (dist["FG"] # None /\ dist["GF"] # None) => dist["FG"] = dist["GF"]
    /\ dist["FF"] # None => dist["FF"] = Some(<<RatInt(0)>>)

C1_Witness ==
    /\ dist["FG"] # None /\ dist["GF"] # None /\ dist["FF"] # None
    /\ fiber # other /\ getReverseFiber(fiber) # other
    /\ Len(fiber.x) = MaxPts
    /\ ReverseIsNearer

\* C2: reversing the point order of either operand, or of both, does not
\* change fiberDistance(F, {G}).
C2_ReversalInvariant ==
    \A c \in {"RG", "FR", "RR"} :
        (dist["FG"] # None /\ dist[c] # None) => dist[c] = dist["FG"]

C2_Witness ==
    /\ \A c \in {"FG", "RG", "FR", "RR"} : dist[c] # None
    /\ getReverseFiber(fiber) # fiber /\ getReverseFiber(other) # other
    /\ ReverseIsNearer

====
